---- MODULE Spec2Model ----
(***************************************************************************)
(* A model of the decision ledger of src/src/logger.rs and of the market   *)
(* snapshot of src/src/data.rs:                                            *)
(*   - DecisionLogger::analyze_performance, the replay of the logged       *)
(*     DecisionActions that pairs each close with an open (Spec);          *)
(*   - DecisionLogger::new / log_decision, the append path (SpecLedger),   *)
(*     and the same with get_latest_records in between (SpecAppendRead);   *)
(*   - get_latest_records, get_record_by_date, get_statistics and          *)
(*     clean_old_records over a directory (SpecRead);                      *)
(*   - calculate_ema, calculate_macd, calculate_rsi, calculate_atr         *)
(*     (SpecIndicators);                                                   *)
(*   - get, its four retrievals under try_join! (SpecGet);                 *)
(*   - normalize and format, the text functions (SpecText).                *)
(* An f64 is kept exact as a fraction [num, den], so rounding and overflow *)
(* of f64 are outside the model; prices and quantities are integers.       *)
(***************************************************************************)
EXTENDS Integers, Sequences, FiniteSets, TLC

VARIABLES
    stored,           \* the log directory as analyze_performance reads it: entries in file-name order
    lookback_cycles,  \* the argument of analyze_performance
    pc,               \* position in analyze_performance: "call", "prime", "window", "done"
    idx,              \* number of actions of the current pass already replayed
    open_positions,   \* HashMap pos_key -> open entry
    outcomes,         \* the TradeOutcome values built so far, in order
    last,             \* the loop iteration just executed (history of one step)
    cycle_number,     \* DecisionLogger.cycle_number of the live instance
    files,            \* the log directory on disk: file name -> content
    now,              \* the wall clock, in seconds
    assigned,         \* the cycle numbers log_decision wrote into the callers' records, in call order
    appends,          \* number of log_decision calls so far, over all instances
    readout,          \* what the ledger call just made returned (NoRead when it was not a read or a prune)
    klines,           \* the candle slice handed to the indicator functions
    period,           \* their period argument
    ind,              \* what calculate_ema, calculate_macd, calculate_rsi and calculate_atr returned
    fetch,            \* data::get: the four retrievals under try_join!
    snapshot,         \* data::get: what the call returned
    given,            \* the argument handed to normalize or to format
    text              \* what normalize or format returned

replayVars == <<stored, lookback_cycles, pc, idx, open_positions, outcomes, last>>
ledgerVars == <<cycle_number, files, now, assigned, appends>>
readVars == <<readout>>
textVars == <<given, text>>
dataVars == <<klines, period, ind, fetch, snapshot, given, text>>
vars == <<stored, lookback_cycles, pc, idx, open_positions, outcomes, last,
          cycle_number, files, now, assigned, appends, readout,
          klines, period, ind, fetch, snapshot, given, text>>

---------------------------------------------------------------------------
(* Bounds of the model. *)

MaxRecords == 2       \* records in the directory
MaxActions == 2       \* decision actions over all records of the directory
MaxLookback == 2      \* largest lookback_cycles tried
MaxCycle == 3         \* log_decision calls per instance
MaxTime == 2          \* seconds the clock may reach
MaxAppends == 4       \* log_decision calls over all instances

---------------------------------------------------------------------------
(* Data: enum Action, DecisionAction, DecisionRecord. *)

ActionKinds == {"open_long", "open_short", "close_long", "close_short"}

Symbols == {"BTCUSDT", "ETHUSDT"}

IsOpen(a) == a \in {"open_long", "open_short"}

IsClose(a) == a \in {"close_long", "close_short"}

\* The k-th action of the directory (k counts over all records, oldest first).
\* Price, quantity and timestamp follow the position, so that every logged
\* action is told apart from every other by its values.
MkAction(kind, symbol, success, k) ==
    [action |-> kind, symbol |-> symbol, success |-> success,
     price |-> 90 + 10 * k, quantity |-> k + 1, leverage |-> 2,
     timestamp |-> k]

\* A parsable directory entry holding a DecisionRecord with these decisions.
MkEntry(decisions) == [parsable |-> TRUE, record |-> [decisions |-> decisions]]

RECURSIVE SumTo(_, _)
SumTo(f, n) == IF n = 0 THEN 0 ELSE f[n] + SumTo(f, n - 1)

\* The directories tried: r records whose decision lists have the lengths
\* lens[1..r], filled from the choice ch of kind, symbol and success.
Shapes ==
    UNION { { lens \in [1..r -> 0..MaxActions] : SumTo(lens, r) <= MaxActions }
            : r \in 0..MaxRecords }

Choices(n) == [1..n -> ActionKinds \X Symbols \X BOOLEAN]

Directory(lens, ch) ==
    [i \in 1..Len(lens) |->
        MkEntry([j \in 1..lens[i] |->
            LET k == SumTo(lens, i - 1) + j
            IN  MkAction(ch[k][1], ch[k][2], ch[k][3], k)])]

---------------------------------------------------------------------------
(* get_latest_records *)

Min(a, b) == IF a < b THEN a ELSE b

IsParsable(e) == e.parsable

RECURSIVE UpToUnparsable(_)
\* the entries before the first unparsable one
UpToUnparsable(entries) ==
    IF Len(entries) = 0 \/ ~IsParsable(entries[1]) THEN <<>>
    ELSE <<entries[1]>> \o UpToUnparsable(Tail(entries))

\* get_latest_records whose loop ends at the first entry it cannot parse (a mutation).
GetLatestRecordsStopAtUnparsable(dir, n) ==
    LET start_index == Len(dir) - Min(n, Len(dir))
        target == SubSeq(dir, start_index + 1, Len(dir))
        kept == UpToUnparsable(target)
    IN  [i \in 1..Len(kept) |-> kept[i].record]

\* The last n entries of the sorted directory; the unparsable ones are skipped.
GetLatestRecords(dir, n) ==
    LET start_index == Len(dir) - Min(n, Len(dir))
        target == SubSeq(dir, start_index + 1, Len(dir))
        kept == SelectSeq(target, IsParsable)
    IN  [i \in 1..Len(kept) |-> kept[i].record]

RECURSIVE Flatten(_)
\* for record in recs { for action in &record.decisions { .. } }: the actions in loop order
Flatten(recs) ==
    IF Len(recs) = 0 THEN <<>>
    ELSE recs[1].decisions \o Flatten(Tail(recs))

---------------------------------------------------------------------------
(* analyze_performance: one loop iteration of each pass as a function of   *)
(* the reconstruction state st = [positions, outcomes].                    *)

EmptyMap == [k \in {} |-> k]

Insert(m, k, v) == [x \in (DOMAIN m) \cup {k} |-> IF x = k THEN v ELSE m[x]]

Remove(m, k) == [x \in (DOMAIN m) \ {k} |-> m[x]]

\* side of the priming pass
PrimeSide(a) ==
    IF a = "open_long" \/ a = "close_long" THEN "long"
    ELSE IF a = "open_short" \/ a = "close_short" THEN "short"
    ELSE ""

\* side of the window pass
WindowSide(a) ==
    IF a = "open_long" \/ a = "open_short" THEN "long"
    ELSE IF a = "open_short" \/ a = "close_short" THEN "short"
    ELSE ""

\* format!("{}_{}", &action.symbol, side)
PosKey(symbol, side) == symbol \o "_" \o side

\* the entry an open action inserts
OpenEntry(side, act) ==
    [side |-> side, open_price |-> act.price, open_time |-> act.timestamp,
     quantity |-> act.quantity, leverage |-> act.leverage]

Frac(n, d) == [num |-> n, den |-> d]

\* the TradeOutcome the close branch of the window pass builds from the entry it found
MakeOutcome(open_pos, act) ==
    LET open_price == open_pos.open_price
        quantity == open_pos.quantity
        leverage == open_pos.leverage
        pnl == IF open_pos.side = "long"
               THEN quantity * (act.price - open_price)
               ELSE quantity * (open_price - act.price)
        position_value == quantity * open_price
        margin_used == Frac(position_value, leverage)
        pnl_pct == IF position_value * leverage > 0
                   THEN Frac(pnl * leverage * 100, position_value)
                   ELSE Frac(0, 1)
    IN  [symbol |-> act.symbol, side |-> open_pos.side, quantity |-> quantity,
         leverage |-> leverage, open_price |-> open_price,
         close_price |-> act.price, position_value |-> position_value,
         margin_used |-> margin_used, pn_l |-> pnl, pn_l_pct |-> pnl_pct]

\* The priming pass that keeps the outcomes of the wider history (a mutation).
PrimeApplyKeepsOutcomes(st, act) ==
    IF ~act.success THEN st
    ELSE LET side == PrimeSide(act.action)
             pos_key == PosKey(act.symbol, side)
         IN  IF IsOpen(act.action)
             THEN [st EXCEPT !.positions = Insert(@, pos_key, OpenEntry(side, act))]
             ELSE IF pos_key \in DOMAIN st.positions
                  THEN [positions |-> Remove(st.positions, pos_key),
                        outcomes |-> Append(st.outcomes,
                                            MakeOutcome(st.positions[pos_key], act))]
                  ELSE st

\* The priming pass whose close removes the entry of the opposite side (a mutation).
PrimeApplyWrongClose(st, act) ==
    IF ~act.success THEN st
    ELSE LET side == PrimeSide(act.action)
             other == IF side = "long" THEN "short" ELSE "long"
         IN  IF IsOpen(act.action)
             THEN [st EXCEPT !.positions =
                      Insert(@, PosKey(act.symbol, side), OpenEntry(side, act))]
             ELSE [st EXCEPT !.positions = Remove(@, PosKey(act.symbol, other))]

\* One iteration of the priming loop.
PrimeApply(st, act) ==
    IF ~act.success THEN st
    ELSE LET side == PrimeSide(act.action)
             pos_key == PosKey(act.symbol, side)
         IN  IF IsOpen(act.action)
             THEN [st EXCEPT !.positions = Insert(@, pos_key, OpenEntry(side, act))]
             ELSE [st EXCEPT !.positions = Remove(@, pos_key)]

\* The window pass without its success test (a mutation).
WindowApplyNoSuccessTest(st, act) ==
    LET side == WindowSide(act.action)
        pos_key == PosKey(act.symbol, side)
    IN  IF IsOpen(act.action)
        THEN [st EXCEPT !.positions = Insert(@, pos_key, OpenEntry(side, act))]
        ELSE IF pos_key \in DOMAIN st.positions
             THEN [st EXCEPT !.outcomes =
                      Append(@, MakeOutcome(st.positions[pos_key], act))]
             ELSE st

\* One iteration of the window loop. The close branch looks the entry up and
\* builds the outcome; it has no remove.
WindowApply(st, act) ==
    IF ~act.success THEN st
    ELSE LET side == WindowSide(act.action)
             pos_key == PosKey(act.symbol, side)
         IN  IF IsOpen(act.action)
             THEN [st EXCEPT !.positions = Insert(@, pos_key, OpenEntry(side, act))]
             ELSE IF pos_key \in DOMAIN st.positions
                  THEN [st EXCEPT !.outcomes =
                           Append(@, MakeOutcome(st.positions[pos_key], act))]
                  ELSE st

\* let records = self.get_latest_records(lookback_cycles)
Records == GetLatestRecords(stored, lookback_cycles)

\* let all_records = self.get_latest_records(lookback_cycles * 3)
AllRecords == GetLatestRecords(stored, lookback_cycles * 3)

\* if all_records.len() > records.len()
Primes == Len(AllRecords) > Len(Records)

PrimeActs == Flatten(AllRecords)

WindowActs == Flatten(Records)

RECURSIVE ReplayPrime(_, _)
\* the whole priming loop over acts
ReplayPrime(st, acts) ==
    IF Len(acts) = 0 THEN st
    ELSE ReplayPrime(PrimeApply(st, Head(acts)), Tail(acts))

RECURSIVE ReplayWindow(_, _)
\* the whole window loop over acts
ReplayWindow(st, acts) ==
    IF Len(acts) = 0 THEN st
    ELSE ReplayWindow(WindowApply(st, Head(acts)), Tail(acts))

\* analyze_performance(n) on the directory dir, start to end: the open-position
\* map and the outcomes it ends with
Analyze(dir, n) ==
    LET recs == GetLatestRecords(dir, n)
        all == GetLatestRecords(dir, n * 3)
        fresh == [positions |-> EmptyMap, outcomes |-> <<>>]
    IN  IF Len(recs) = 0 THEN fresh
        ELSE ReplayWindow(IF Len(all) > Len(recs)
                          THEN ReplayPrime(fresh, Flatten(all))
                          ELSE fresh,
                          Flatten(recs))

\* let mut analysis = PerformanceAnalysis::default() (line 290): the counts and
\* the ratios the report carries, an f64 0.0 being the fraction 0 / 1
DefaultAnalysis ==
    [total_trades |-> 0, winning_trades |-> 0, losing_trades |-> 0,
     win_rate |-> Frac(0, 1), avg_win |-> Frac(0, 1), avg_loss |-> Frac(0, 1),
     profit_factor |-> Frac(0, 1)]

\* the analysis analyze_performance holds once its loops are over: line 290
\* is the only statement that writes it, the outcome each close builds
\* (lines 408-416) is dropped at the end of its block
AnalysisAtReturn == DefaultAnalysis

---------------------------------------------------------------------------
(* analyze_performance as a state machine: the call, one step per loop     *)
(* iteration, the return.                                                  *)

NoStep == [pass |-> "none"]

StepOf(pass, at, act, side, before) ==
    [pass |-> pass, at |-> at, act |-> act, side |-> side,
     key |-> PosKey(act.symbol, side),
     before |-> before.positions, nbefore |-> Len(before.outcomes)]

State == [positions |-> open_positions, outcomes |-> outcomes]

InitReplay ==
    /\ \E lens \in Shapes :
         \E ch \in Choices(SumTo(lens, Len(lens))) :
            stored = Directory(lens, ch)
    /\ lookback_cycles \in 0..MaxLookback
    /\ pc = "call"
    /\ idx = 0
    /\ open_positions = EmptyMap
    /\ outcomes = <<>>
    /\ last = NoStep

\* lines 286-297: read the window, return early when it is empty, decide on priming
Call ==
    /\ pc = "call"
    /\ pc' = IF Len(Records) = 0 THEN "done"
             ELSE IF Primes THEN "prime" ELSE "window"
    /\ UNCHANGED <<stored, lookback_cycles, idx, open_positions, outcomes, last, ledgerVars, readVars, dataVars>>

\* lines 298-333: one iteration of the priming loop
PrimeStep ==
    /\ pc = "prime"
    /\ idx < Len(PrimeActs)
    /\ LET act == PrimeActs[idx + 1]
           st == PrimeApply(State, act)
       IN  /\ open_positions' = st.positions
           /\ outcomes' = st.outcomes
           /\ last' = StepOf("prime", idx + 1, act, PrimeSide(act.action), State)
    /\ idx' = idx + 1
    /\ UNCHANGED <<stored, lookback_cycles, pc, ledgerVars, readVars, dataVars>>

\* the priming loop ends, the window loop starts
PrimeDone ==
    /\ pc = "prime"
    /\ idx = Len(PrimeActs)
    /\ pc' = "window"
    /\ idx' = 0
    /\ UNCHANGED <<stored, lookback_cycles, open_positions, outcomes, last, ledgerVars, readVars, dataVars>>

\* lines 336-420: one iteration of the window loop
WindowStep ==
    /\ pc = "window"
    /\ idx < Len(WindowActs)
    /\ LET act == WindowActs[idx + 1]
           st == WindowApply(State, act)
       IN  /\ open_positions' = st.positions
           /\ outcomes' = st.outcomes
           /\ last' = StepOf("window", idx + 1, act, WindowSide(act.action), State)
    /\ idx' = idx + 1
    /\ UNCHANGED <<stored, lookback_cycles, pc, ledgerVars, readVars, dataVars>>

\* the window loop ends
WindowDone ==
    /\ pc = "window"
    /\ idx = Len(WindowActs)
    /\ pc' = "done"
    /\ UNCHANGED <<stored, lookback_cycles, idx, open_positions, outcomes, last, ledgerVars, readVars, dataVars>>

---------------------------------------------------------------------------
(* DecisionLogger::new and log_decision over the log directory.            *)

\* the largest i32
I32Max == 2147483647

\* self.cycle_number += 1 on an i32 (a release build wraps)
Inc32(c) == IF c = I32Max THEN (0 - I32Max) - 1 ELSE c + 1

\* record.timestamp.format("%Y%m%d_%H%M%S"): second t of one minute
TimeStr(t) == "20260101_0000" \o (IF t < 10 THEN "0" ELSE "") \o ToString(t)

\* format!("decision_{}_cycle{}.json", time_str, record.cycle_number)
FileName(t, c) == "decision_" \o TimeStr(t) \o "_cycle" \o ToString(c) \o ".json"

\* serde_json::to_string_pretty(record): the document of the caller's record id,
\* stamped with cycle c at second t
Serialized(id, t, c) ==
    [parsable |-> TRUE, record |-> [id |-> id, timestamp |-> t, cycle_number |-> c]]

\* what a failed fs::write may leave under a name it has already created
Truncated == [parsable |-> FALSE]

\* how a log_decision call may end
Results == {"ok", "serialize_err", "write_err", "write_err_truncated"}

\* log_decision whose counter moves only once the record is on disk (a mutation).
StampCounterAfterWrite(c, res) ==
    [stamped |-> Inc32(c),
     counter |-> IF res = "ok" THEN Inc32(c) ELSE c]

\* log_decision that stamps the record before it advances the counter
StampBeforeAdvance(c, res) ==
    [stamped |-> c, counter |-> Inc32(c)]

\* lines 105-106: the counter moves first and the record is stamped with it,
\* whatever happens after
Stamp(c, res) ==
    [stamped |-> Inc32(c), counter |-> Inc32(c)]

\* lines 110-118: the directory after the write of document doc under name
WriteFile(dir, name, doc, res) ==
    CASE res = "ok" -> Insert(dir, name, doc)
      [] res = "write_err_truncated" -> Insert(dir, name, Truncated)
      [] OTHER -> dir

\* no read or prune has returned since the last change of the ledger
NoRead == [op |-> "none"]

InitLedger ==
    /\ cycle_number = 0
    /\ files = EmptyMap
    /\ now = 0
    /\ assigned = <<>>
    /\ appends = 0
    /\ readout = NoRead

\* DecisionLogger::new(log_dir) on the same directory: a fresh instance replaces the live one
NewLogger ==
    /\ pc = "idle"
    /\ cycle_number' = 0
    /\ assigned' = <<>>
    /\ readout' = NoRead
    /\ UNCHANGED <<files, now, appends, replayVars, dataVars>>

\* log_decision(record), ending as res
LogDecision ==
    /\ pc = "idle"
    /\ cycle_number < MaxCycle
    /\ appends < MaxAppends
    /\ \E res \in Results :
         LET s == Stamp(cycle_number, res)
             doc == Serialized(appends + 1, now, s.stamped)
         IN  /\ cycle_number' = s.counter
             /\ assigned' = Append(assigned, s.stamped)
             /\ files' = WriteFile(files, FileName(now, s.stamped), doc, res)
    /\ appends' = appends + 1
    /\ readout' = NoRead
    /\ UNCHANGED <<now, replayVars, dataVars>>

\* a second passes on the wall clock
Tick ==
    /\ pc = "idle"
    /\ now < MaxTime
    /\ now' = now + 1
    /\ readout' = NoRead
    /\ UNCHANGED <<cycle_number, files, assigned, appends, replayVars, dataVars>>

InitReplayIdle ==
    /\ stored = <<>>
    /\ lookback_cycles = 0
    /\ pc = "idle"
    /\ idx = 0
    /\ open_positions = EmptyMap
    /\ outcomes = <<>>
    /\ last = NoStep

---------------------------------------------------------------------------
(* The read paths and the prune of the ledger over the directory on disk.  *)

MaxRead == 3          \* largest n handed to get_latest_records
MaxDays == 2          \* largest days handed to clean_old_records

\* the (second, cycle) pairs a file name of this model may carry
NameSpace == (0..MaxTime) \X (1..MaxCycle)

\* the second and the cycle number a file name was formatted from
NameParts(name) == CHOOSE p \in NameSpace : FileName(p[1], p[2]) = name

RECURSIVE Digits(_)
\* the decimal digits "{}" prints for a number that is not negative
Digits(c) == IF c < 10 THEN <<c>> ELSE Append(Digits(c \div 10), c % 10)

\* The bytes of a file name at the places where two names differ: the two
\* digits of the second, then the digits of the cycle number and the dot of
\* ".json" (48 is the byte of "0", 46 the byte of ".").
NameKey(name) ==
    LET p == NameParts(name)
        d == Digits(p[2])
    IN  <<48 + (p[1] \div 10), 48 + (p[1] % 10)>>
            \o [i \in 1..Len(d) |-> 48 + d[i]] \o <<46>>

RECURSIVE LexLess(_, _)
\* OsString order: byte by byte, a proper prefix first
LexLess(a, b) ==
    IF Len(b) = 0 THEN FALSE
    ELSE IF Len(a) = 0 THEN TRUE
    ELSE IF a[1] # b[1] THEN a[1] < b[1]
    ELSE LexLess(Tail(a), Tail(b))

RECURSIVE SortNames(_)
\* entries.sort_by_key(|entry| entry.file_name())
SortNames(S) ==
    IF S = {} THEN <<>>
    ELSE LET m == CHOOSE x \in S :
                    \A y \in S \ {x} : LexLess(NameKey(x), NameKey(y))
         IN  <<m>> \o SortNames(S \ {m})

\* the files of the directory in file-name order
DirEntries(dir) ==
    LET names == SortNames(DOMAIN dir)
    IN  [i \in 1..Len(names) |-> dir[names[i]]]

\* get_record_by_date: the files glob finds for "decision_{date}_*.json", in
\* the alphabetical order glob yields them; what cannot be read or parsed is skipped
GetRecordByDate(dir, t) ==
    LET names == SortNames({f \in DOMAIN dir : NameParts(f)[1] = t})
        found == [i \in 1..Len(names) |-> dir[names[i]]]
        kept == SelectSeq(found, IsParsable)
    IN  [i \in 1..Len(kept) |-> kept[i].record]

\* Statistics::default()
NoStatistics ==
    [total_cycles |-> 0, successful_cycles |-> 0, failed_cycles |-> 0,
     total_open_positions |-> 0, total_close_positions |-> 0]

RECURSIVE CountActionsNoSuccessTest(_, _)
\* the count of one record's actions without the test of action.success
CountActionsNoSuccessTest(stats, decisions) ==
    IF Len(decisions) = 0 THEN stats
    ELSE LET action == decisions[1]
             counted ==
                 IF IsOpen(action.action)
                 THEN [stats EXCEPT !.total_open_positions = @ + 1]
                 ELSE [stats EXCEPT !.total_close_positions = @ + 1]
         IN  CountActionsNoSuccessTest(counted, Tail(decisions))

RECURSIVE CountActions(_, _)
\* lines 263-270: the successful actions of one record, by kind
CountActions(stats, decisions) ==
    IF Len(decisions) = 0 THEN stats
    ELSE LET action == decisions[1]
             counted ==
                 IF ~action.success THEN stats
                 ELSE IF IsOpen(action.action)
                 THEN [stats EXCEPT !.total_open_positions = @ + 1]
                 ELSE [stats EXCEPT !.total_close_positions = @ + 1]
         IN  CountActions(counted, Tail(decisions))

RECURSIVE StatisticsLoop(_, _)
\* lines 240-277: one pass over the directory entries
StatisticsLoop(stats, entries) ==
    IF Len(entries) = 0 THEN stats
    ELSE IF ~IsParsable(entries[1]) THEN StatisticsLoop(stats, Tail(entries))
    ELSE LET record == entries[1].record
             cycles == [stats EXCEPT !.total_cycles = @ + 1]
             acted == CountActions(cycles, record.decisions)
             done == IF record.success
                     THEN [acted EXCEPT !.successful_cycles = @ + 1]
                     ELSE [acted EXCEPT !.failed_cycles = @ + 1]
         IN  StatisticsLoop(done, Tail(entries))

\* get_statistics
GetStatistics(dir) == StatisticsLoop(NoStatistics, DirEntries(dir))

\* days * 24 * 60 * 60
SecsPerDay == 24 * 60 * 60

\* SystemTime::now().checked_sub(Duration::from_secs(days * 24 * 60 * 60))
CutoffTime(t, days) == t - days * SecsPerDay

\* clean_old_records that also removes a file modified at the cutoff (a mutation).
CleanOldRecordsAtCutoff(dir, cutoff_time, failing) ==
    LET removed == {f \in DOMAIN dir :
                        dir[f].mtime <= cutoff_time /\ f \notin failing}
    IN  [dir |-> [f \in (DOMAIN dir) \ removed |-> dir[f]],
         removed_count |-> Cardinality(removed),
         ret |-> [ok |-> TRUE]]

\* clean_old_records, lines 191-230: every file modified before the cutoff is
\* removed unless fs::remove_file fails on it (the files of failing); the count
\* goes to the log and the call returns Ok(()), which carries no value
CleanOldRecords(dir, cutoff_time, failing) ==
    LET removed == {f \in DOMAIN dir :
                        dir[f].mtime < cutoff_time /\ f \notin failing}
    IN  [dir |-> [f \in (DOMAIN dir) \ removed |-> dir[f]],
         removed_count |-> Cardinality(removed),
         ret |-> [ok |-> TRUE]]

\* fs::read_dir(&self.log_dir) may fail; the call then returns Err
ReadDirErr == [ok |-> FALSE]

\* get_latest_records(n)
CallGetLatestRecords ==
    /\ pc = "idle"
    /\ \E n \in 0..MaxRead, dir_ok \in BOOLEAN :
         readout' = [op |-> "latest", n |-> n, dir_ok |-> dir_ok,
                     ret |-> IF dir_ok
                             THEN [ok |-> TRUE,
                                   records |-> GetLatestRecords(DirEntries(files), n)]
                             ELSE ReadDirErr]
    /\ UNCHANGED <<ledgerVars, replayVars, dataVars>>

\* get_record_by_date(date), date being second t
CallGetRecordByDate ==
    /\ pc = "idle"
    /\ \E t \in 0..MaxTime :
         readout' = [op |-> "by_date", date |-> t, dir_ok |-> TRUE,
                     ret |-> [ok |-> TRUE, records |-> GetRecordByDate(files, t)]]
    /\ UNCHANGED <<ledgerVars, replayVars, dataVars>>

\* get_statistics()
CallGetStatistics ==
    /\ pc = "idle"
    /\ \E dir_ok \in BOOLEAN :
         readout' = [op |-> "statistics", dir_ok |-> dir_ok,
                     ret |-> IF dir_ok
                             THEN [ok |-> TRUE, stats |-> GetStatistics(files)]
                             ELSE ReadDirErr]
    /\ UNCHANGED <<ledgerVars, replayVars, dataVars>>

\* clean_old_records(days); fs::remove_file fails on the files of failing
CallCleanOldRecords ==
    /\ pc = "idle"
    /\ \E days \in 0..MaxDays, failing \in SUBSET (DOMAIN files), dir_ok \in BOOLEAN :
         LET cutoff_time == CutoffTime(now, days)
             res == CleanOldRecords(files, cutoff_time, failing)
         IN  IF dir_ok
             THEN /\ files' = res.dir
                  /\ readout' = [op |-> "clean", days |-> days, dir_ok |-> TRUE,
                                 cutoff_time |-> cutoff_time, before |-> files,
                                 failing |-> failing,
                                 removed_count |-> res.removed_count,
                                 ret |-> res.ret]
             ELSE /\ files' = files
                  /\ readout' = [op |-> "clean", days |-> days, dir_ok |-> FALSE,
                                 cutoff_time |-> cutoff_time, before |-> files,
                                 failing |-> {}, removed_count |-> 0,
                                 ret |-> ReadDirErr]
    /\ UNCHANGED <<cycle_number, now, assigned, appends, replayVars, dataVars>>

\* the clock of the directories read: day MaxDays of the epoch
ReadClock == MaxDays * SecsPerDay

\* the modification times tried: a second more than a day ago, a day ago to
\* the second, a second ago
MTimes == {ReadClock - SecsPerDay - 1, ReadClock - SecsPerDay, ReadClock - 1}

\* the names of the directories read
DirNames == {<<0, 1>>, <<0, 2>>, <<1, 1>>}

\* what a caller may have logged in a record: its success flag and its decisions
Bodies ==
    { [success |-> TRUE,
       decisions |-> <<MkAction("open_long", "BTCUSDT", TRUE, 1),
                       MkAction("close_long", "BTCUSDT", FALSE, 2)>>],
      [success |-> FALSE,
       decisions |-> <<MkAction("close_short", "ETHUSDT", TRUE, 1)>>] }

\* what may lie under the name of second p[1] and cycle p[2]: a document that
\* does not parse, or a record log_decision wrote
Contents(p) ==
    { [parsable |-> FALSE, mtime |-> m] : m \in MTimes }
    \cup { [parsable |-> TRUE, mtime |-> m,
            record |-> [timestamp |-> p[1], cycle_number |-> p[2],
                        success |-> b.success, decisions |-> b.decisions]]
           : b \in Bodies, m \in MTimes }

\* the directories read
Directories ==
    UNION { { d \in [ {FileName(p[1], p[2]) : p \in S}
                        -> UNION {Contents(p) : p \in DirNames} ] :
                \A f \in DOMAIN d : d[f] \in Contents(NameParts(f)) }
            : S \in SUBSET DirNames }

InitRead ==
    /\ cycle_number = 0
    /\ files \in Directories
    /\ now = ReadClock
    /\ assigned = <<>>
    /\ appends = 0
    /\ readout = NoRead

---------------------------------------------------------------------------
(* The indicator functions of src/src/data.rs. An f64 is kept exact as a   *)
(* fraction in lowest terms; a call returns a value or panics.             *)

MaxLen == 4           \* longest candle slice tried candle by candle
MaxPeriod == 3        \* largest period tried

RECURSIVE Gcd(_, _)
Gcd(a, b) == IF b = 0 THEN a ELSE Gcd(b, a % b)

Abs(n) == IF n < 0 THEN 0 - n ELSE n

\* the f64 n / d, d not 0, in lowest terms with a positive denominator
Q(n, d) ==
    LET g == Gcd(Abs(n), Abs(d))
    IN  IF d > 0 THEN [num |-> n \div g, den |-> d \div g]
        ELSE [num |-> (0 - n) \div g, den |-> (0 - d) \div g]

QInt(n) == [num |-> n, den |-> 1]

\* 0.0
Zero == QInt(0)

QAdd(a, b) == Q(a.num * b.den + b.num * a.den, a.den * b.den)

QSub(a, b) == Q(a.num * b.den - b.num * a.den, a.den * b.den)

QMul(a, b) == Q(a.num * b.num, a.den * b.den)

\* a / b for b not 0.0
QDiv(a, b) == Q(a.num * b.den, a.den * b.num)

QLess(a, b) == a.num * b.den < b.num * a.den

QLeq(a, b) == a.num * b.den <= b.num * a.den

\* f64::max
QMax(a, b) == IF QLess(a, b) THEN b ELSE a

\* f64::abs
QAbs(a) == [num |-> Abs(a.num), den |-> a.den]

RECURSIVE SumQ(_)
\* iter().sum::<f64>()
SumQ(xs) == IF Len(xs) = 0 THEN Zero ELSE QAdd(xs[1], SumQ(Tail(xs)))

\* a call that returned v
Returned(v) == [panic |-> FALSE, value |-> v]

\* a call that panicked on an index or a slice bound out of range
Panicked == [panic |-> TRUE]

\* klines.iter().map(|k| k.close).collect()
Closes(ks) == [i \in 1..Len(ks) |-> QInt(ks[i].close)]

\* e, once v has its value: a loop hands the value of its accumulator to the
\* next iteration, not the expression that computes it
Eager(v, e) == IF v = v THEN e ELSE e

RECURSIVE EmaLoop(_, _, _, _)
\* lines 96-98: ema = (price - ema) * multiplier + ema over closes[i..]
EmaLoop(ema, closes, i, multiplier) ==
    IF i > Len(closes) THEN ema
    ELSE LET next == QAdd(QMul(QSub(closes[i], ema), multiplier), ema)
         IN  Eager(next, EmaLoop(next, closes, i + 1, multiplier))

\* calculate_ema with the multiplier 2 / period
CalculateEmaPlainMultiplier(ks, p) ==
    IF Len(ks) < p THEN Returned(Zero)
    ELSE IF p > Len(ks) THEN Panicked
    ELSE LET closes == Closes(ks)
             sma == QDiv(SumQ(SubSeq(closes, 1, p)), QInt(p))
             multiplier == QDiv(QInt(2), QInt(p))
         IN  Returned(EmaLoop(sma, closes, p + 1, multiplier))

\* calculate_ema; closes[..period] and closes[period..] panic when period > len
CalculateEma(ks, p) ==
    IF Len(ks) < p THEN Returned(Zero)
    ELSE IF p > Len(ks) THEN Panicked
    ELSE LET closes == Closes(ks)
             sma == QDiv(SumQ(SubSeq(closes, 1, p)), QInt(p))
             multiplier == QDiv(QInt(2), QInt(p + 1))
         IN  Returned(EmaLoop(sma, closes, p + 1, multiplier))

\* the literals of calculate_macd
MacdMinLen == 26
MacdFast == 12
MacdSlow == 26

\* calculate_macd
CalculateMacd(ks) ==
    IF Len(ks) < MacdMinLen THEN Returned(Zero)
    ELSE LET ema12 == CalculateEma(ks, MacdFast)
             ema26 == CalculateEma(ks, MacdSlow)
         IN  IF ema12.panic \/ ema26.panic THEN Panicked
             ELSE Returned(QSub(ema12.value, ema26.value))

\* klines[i].close - klines[i - 1].close, i counted from 0 as in the source
Change(ks, i) == QSub(QInt(ks[i + 1].close), QInt(ks[i].close))

\* (avg * (period - 1) + x) / period
Wilder(avg, x, p) == QDiv(QAdd(QMul(avg, QInt(p - 1)), x), QInt(p))

RECURSIVE RsiSeed(_, _, _, _)
\* lines 118-125: the gains and the losses of the changes i..=period
RsiSeed(ks, i, p, acc) ==
    IF i > p THEN acc
    ELSE LET change == Change(ks, i)
             next == IF QLess(Zero, change)
                     THEN [acc EXCEPT !.gains = QAdd(@, change)]
                     ELSE [acc EXCEPT !.losses = QAdd(@, QSub(Zero, change))]
         IN  Eager(next, RsiSeed(ks, i + 1, p, next))

RECURSIVE RsiSmooth(_, _, _, _)
\* lines 130-139: Wilder's smoothing over the changes i..len
RsiSmooth(ks, i, p, avg) ==
    IF i >= Len(ks) THEN avg
    ELSE LET change == Change(ks, i)
             gain == IF QLess(Zero, change) THEN change ELSE Zero
             loss == IF QLess(Zero, change) THEN Zero ELSE QSub(Zero, change)
             next == [avg_gain |-> Wilder(avg.avg_gain, gain, p),
                      avg_loss |-> Wilder(avg.avg_loss, loss, p)]
         IN  Eager(next, RsiSmooth(ks, i + 1, p, next))

\* avg_gain and avg_loss as line 141 finds them, for len > period
RsiAverages(ks, p) ==
    LET seed == RsiSeed(ks, 1, p, [gains |-> Zero, losses |-> Zero])
    IN  RsiSmooth(ks, p + 1, p,
                  [avg_gain |-> QDiv(seed.gains, QInt(p)),
                   avg_loss |-> QDiv(seed.losses, QInt(p))])

\* lines 141-145
RsiOf(avg) ==
    IF avg.avg_loss = Zero THEN QInt(100)
    ELSE LET rs == QDiv(avg.avg_gain, avg.avg_loss)
         IN  QSub(QInt(100), QDiv(QInt(100), QAdd(QInt(1), rs)))

\* calculate_rsi whose guard lets a slice of exactly period candles through (a mutation).
CalculateRsiShortGuard(ks, p) ==
    IF Len(ks) < p THEN Returned(Zero)
    ELSE IF p > Len(ks) - 1 THEN Panicked
    ELSE Returned(RsiOf(RsiAverages(ks, p)))

\* calculate_rsi without the test of avg_loss == 0.0 (a mutation): 0.0 / 0.0
\* is NaN, which no comparison finds in [0, 100]; x / 0.0 is infinite for
\* x > 0.0 and the result is 100.0 - 0.0
CalculateRsiNoZeroTest(ks, p) ==
    IF Len(ks) <= p THEN Returned(Zero)
    ELSE LET avg == RsiAverages(ks, p)
         IN  IF avg.avg_loss = Zero /\ avg.avg_gain = Zero THEN Returned(QInt(0 - 1))
             ELSE Returned(RsiOf(avg))

\* calculate_rsi; klines[i] for i in 1..=period panics when period > len - 1
CalculateRsi(ks, p) ==
    IF Len(ks) <= p THEN Returned(Zero)
    ELSE IF p > Len(ks) - 1 THEN Panicked
    ELSE Returned(RsiOf(RsiAverages(ks, p)))

\* the true range without the absolute values (a mutation).
TrueRangeNoAbs(high, low, prev_close) ==
    QMax(QMax(QSub(high, low), QSub(high, prev_close)), QSub(low, prev_close))

\* lines 160-164: tr1.max(tr2).max(tr3)
TrueRange(high, low, prev_close) ==
    QMax(QMax(QSub(high, low), QAbs(QSub(high, prev_close))),
         QAbs(QSub(low, prev_close)))

\* lines 152-165: trs, its first element 0.0 for the first candle
TrueRanges(ks) ==
    <<Zero>> \o [i \in 1..(Len(ks) - 1) |->
                    TrueRange(QInt(ks[i + 1].high), QInt(ks[i + 1].low),
                              QInt(ks[i].close))]

RECURSIVE AtrSmooth(_, _, _, _)
\* lines 171-173: Wilder's smoothing over trs[i..], i counted from 1
AtrSmooth(atr, trs, i, p) ==
    IF i > Len(trs) THEN atr
    ELSE LET next == Wilder(atr, trs[i], p)
         IN  Eager(next, AtrSmooth(next, trs, i + 1, p))

\* calculate_atr; trs[1..=period] panics when period + 1 > trs.len()
CalculateAtr(ks, p) ==
    IF Len(ks) <= p THEN Returned(Zero)
    ELSE LET trs == TrueRanges(ks)
         IN  IF p + 1 > Len(trs) THEN Panicked
             ELSE Returned(AtrSmooth(QDiv(SumQ(SubSeq(trs, 2, p + 1)), QInt(p)),
                                     trs, p + 2, p))

\* the candles tried: the close, and high and low above, around or below it;
\* the second pair has its high under its low
ClosePrices == {1, 2, 3}

HighLows == {<<3, 1>>, <<1, 2>>}

Candles == {[high |-> hl[1], low |-> hl[2], close |-> c] : hl \in HighLows, c \in ClosePrices}

\* the long slices tried, around the lengths the indicators and the series
\* ask for (7, 10, 14, 20 and 26 candles): one candle repeated, then any
\* last candle
LongLens == {7, 8, 10, 11, 14, 15, 19, 20, MacdMinLen - 1, MacdMinLen, MacdMinLen + 1}

\* a rising slice with closes 1, 2, 3, 4, 5
RisingSlice == [i \in 1..5 |-> [high |-> i, low |-> i, close |-> i]]

KlineInputs ==
    UNION { [1..n -> Candles] : n \in 0..MaxLen }
    \cup { [i \in 1..n |-> IF i < n THEN c ELSE k] : n \in LongLens, c \in Candles, k \in Candles }
    \cup { RisingSlice }

\* no indicator function has returned
NoIndicator == [op |-> "none"]

\* no text function was handed an argument, none has returned
NoArgument == [fn |-> "none"]

NoText == [op |-> "none"]

InitIndicators ==
    /\ klines \in KlineInputs
    /\ period \in 1..MaxPeriod
    /\ ind = NoIndicator
    /\ fetch = <<>>
    /\ snapshot = [kind |-> "idle"]
    /\ given = NoArgument
    /\ text = NoText

CallCalculateEma ==
    /\ ind = NoIndicator
    /\ ind' = [op |-> "ema", ret |-> CalculateEma(klines, period)]
    /\ UNCHANGED <<klines, period, fetch, snapshot, replayVars, ledgerVars, readVars, textVars>>

CallCalculateMacd ==
    /\ ind = NoIndicator
    /\ ind' = [op |-> "macd", ret |-> CalculateMacd(klines)]
    /\ UNCHANGED <<klines, period, fetch, snapshot, replayVars, ledgerVars, readVars, textVars>>

CallCalculateRsi ==
    /\ ind = NoIndicator
    /\ ind' = [op |-> "rsi", ret |-> CalculateRsi(klines, period)]
    /\ UNCHANGED <<klines, period, fetch, snapshot, replayVars, ledgerVars, readVars, textVars>>

CallCalculateAtr ==
    /\ ind = NoIndicator
    /\ ind' = [op |-> "atr", ret |-> CalculateAtr(klines, period)]
    /\ UNCHANGED <<klines, period, fetch, snapshot, replayVars, ledgerVars, readVars, textVars>>

---------------------------------------------------------------------------
(* data::get: four retrievals under tokio::try_join!, then the assembly of *)
(* the Data value.                                                         *)

\* Option::None and Option::Some(v)
None == [some |-> FALSE]

Some(v) == [some |-> TRUE, v |-> v]

\* char::to_uppercase over the letters of the symbols tried
ToUpper(ch) ==
    CASE ch = "b" -> "B" [] ch = "t" -> "T" [] ch = "c" -> "C"
      [] ch = "u" -> "U" [] ch = "s" -> "S" [] ch = "d" -> "D"
      [] ch = "e" -> "E" [] ch = "h" -> "H"
      [] OTHER -> ch

\* "USDT", a string being the sequence of its characters
Usdt == <<"U", "S", "D", "T">>

\* str::ends_with
EndsWith(str, suffix) ==
    /\ Len(str) >= Len(suffix)
    /\ SubSeq(str, Len(str) - Len(suffix) + 1, Len(str)) = suffix

\* normalize that looks for the suffix before it upper-cases
NormalizeTestsRawSuffix(symbol) ==
    LET upper == [i \in 1..Len(symbol) |-> ToUpper(symbol[i])]
    IN  IF EndsWith(symbol, Usdt) THEN upper ELSE upper \o Usdt

\* normalize
Normalize(symbol) ==
    LET upper == [i \in 1..Len(symbol) |-> ToUpper(symbol[i])]
    IN  IF EndsWith(upper, Usdt) THEN upper ELSE upper \o Usdt

\* the four futures handed to try_join!
Retrievals == {"klines3m", "klines4h", "oi_data", "funding_rate"}

\* a future that has not completed; val and error are not there to read yet
Pending == [st |-> "pending", resp |-> "none", ok |-> FALSE, val |-> None, error |-> "none"]

\* a future that completed with Ok(v) on the upstream answer resp
ReadyOk(resp, v) == [st |-> "ready", resp |-> resp, ok |-> TRUE, val |-> v, error |-> "none"]

\* a future that completed with Err(error) on the upstream answer resp
ReadyErr(resp, error) == [st |-> "ready", resp |-> resp, ok |-> FALSE, val |-> None, error |-> error]

\* get_klines on an upstream answer: no status test, so a body that is not a
\* list of candles fails in json() whatever the status
GetKlines(resp, body) ==
    IF resp = "success" THEN ReadyOk(resp, body)
    ELSE ReadyErr(resp, "RequestError")

\* get_open_interest_data on an upstream answer
GetOpenInterestData(resp, oi) ==
    CASE resp = "transport" -> ReadyErr(resp, "RequestError")
      [] resp = "non_success" -> ReadyOk(resp, None)
      [] resp = "bad_json" -> ReadyErr(resp, "RequestError")
      [] resp = "bad_float" -> ReadyErr(resp, "ParseFloatError")
      [] OTHER -> ReadyOk(resp, Some([latest |-> oi, average |-> QMul(oi, Q(999, 1000))]))

\* get_funding_rate on an upstream answer
GetFundingRate(resp, rate) ==
    CASE resp = "transport" -> ReadyErr(resp, "RequestError")
      [] resp = "non_success" -> ReadyOk(resp, None)
      [] resp = "bad_json" -> ReadyErr(resp, "RequestError")
      [] resp = "bad_float" -> ReadyErr(resp, "ParseFloatError")
      [] OTHER -> ReadyOk(resp, Some(rate))

\* how upstream may answer a candle request and a futures request
KlineAnswers == {"transport", "non_success", "bad_json", "success"}

FuturesAnswers == {"transport", "non_success", "bad_json", "bad_float", "success"}

\* IntradayData::default() and LongerTermData::default()
NoIntraday ==
    [mid_prices |-> <<>>, ema20_values |-> <<>>, macd_values |-> <<>>,
     rsi7_values |-> <<>>, rsi14_values |-> <<>>]

NoLongerTerm ==
    [ema20 |-> Zero, ema50 |-> Zero, atr3 |-> Zero, atr14 |-> Zero,
     current_volume |-> Zero, average_volume |-> Zero,
     macd_values |-> <<>>, rsi14_values |-> <<>>]

\* saturating_sub
SaturatingSub(a, b) == IF a < b THEN 0 ELSE a - b

RECURSIVE IntradayLoopEarlyRsi(_, _, _)
\* the loop of calculate_intraday_series with `>= 7` for the RSI7 test
IntradayLoopEarlyRsi(data, ks, i) ==
    IF i >= Len(ks) THEN data
    ELSE LET kline_slice == SubSeq(ks, 1, i + 1)
             n == Len(kline_slice)
             next ==
                 [mid_prices |-> Append(data.mid_prices, QInt(kline_slice[n].close)),
                  ema20_values |->
                      IF n >= 20
                      THEN Append(data.ema20_values, CalculateEma(kline_slice, 20).value)
                      ELSE data.ema20_values,
                  macd_values |->
                      IF n >= 26
                      THEN Append(data.macd_values, CalculateMacd(kline_slice).value)
                      ELSE data.macd_values,
                  rsi7_values |->
                      IF n >= 7
                      THEN Append(data.rsi7_values, CalculateRsi(kline_slice, 7).value)
                      ELSE data.rsi7_values,
                  rsi14_values |->
                      IF n > 14
                      THEN Append(data.rsi14_values, CalculateRsi(kline_slice, 14).value)
                      ELSE data.rsi14_values]
         IN  Eager(next, IntradayLoopEarlyRsi(next, ks, i + 1))

RECURSIVE IntradayLoop(_, _, _)
\* lines 187-203: i counted from 0, kline_slice = &klines[..=i]
IntradayLoop(data, ks, i) ==
    IF i >= Len(ks) THEN data
    ELSE LET kline_slice == SubSeq(ks, 1, i + 1)
             n == Len(kline_slice)
             next ==
                 [mid_prices |-> Append(data.mid_prices, QInt(kline_slice[n].close)),
                  ema20_values |->
                      IF n >= 20
                      THEN Append(data.ema20_values, CalculateEma(kline_slice, 20).value)
                      ELSE data.ema20_values,
                  macd_values |->
                      IF n >= 26
                      THEN Append(data.macd_values, CalculateMacd(kline_slice).value)
                      ELSE data.macd_values,
                  rsi7_values |->
                      IF n > 7
                      THEN Append(data.rsi7_values, CalculateRsi(kline_slice, 7).value)
                      ELSE data.rsi7_values,
                  rsi14_values |->
                      IF n > 14
                      THEN Append(data.rsi14_values, CalculateRsi(kline_slice, 14).value)
                      ELSE data.rsi14_values]
         IN  Eager(next, IntradayLoop(next, ks, i + 1))

\* calculate_intraday_series that stops before the last candle
CalculateIntradaySeriesWithoutLast(ks) ==
    IF Len(ks) = 0 THEN NoIntraday
    ELSE IntradayLoop(NoIntraday, SubSeq(ks, 1, Len(ks) - 1), SaturatingSub(Len(ks), 10))

\* calculate_intraday_series
CalculateIntradaySeries(ks) ==
    IF Len(ks) = 0 THEN NoIntraday
    ELSE IntradayLoop(NoIntraday, ks, SaturatingSub(Len(ks), 10))

CallCalculateIntradaySeries ==
    /\ ind = NoIndicator
    /\ ind' = [op |-> "intraday", ret |-> Returned(CalculateIntradaySeries(klines))]
    /\ UNCHANGED <<klines, period, fetch, snapshot, replayVars, ledgerVars, readVars, textVars>>

RECURSIVE LongerTermLoop(_, _, _)
\* lines 228-236
LongerTermLoop(data, ks, i) ==
    IF i >= Len(ks) THEN data
    ELSE LET kline_slice == SubSeq(ks, 1, i + 1)
             n == Len(kline_slice)
             next ==
                 [data EXCEPT
                    !.macd_values =
                        IF n >= 26 THEN Append(@, CalculateMacd(kline_slice).value) ELSE @,
                    !.rsi14_values =
                        IF n > 14 THEN Append(@, CalculateRsi(kline_slice, 14).value) ELSE @]
         IN  Eager(next, LongerTermLoop(next, ks, i + 1))

\* calculate_longer_term_data
CalculateLongerTermData(ks) ==
    IF Len(ks) = 0 THEN NoLongerTerm
    ELSE LET volumes == [i \in 1..Len(ks) |-> QInt(ks[i].volume)]
             data == [NoLongerTerm EXCEPT
                        !.ema20 = CalculateEma(ks, 20).value,
                        !.ema50 = CalculateEma(ks, 50).value,
                        !.atr3 = CalculateAtr(ks, 3).value,
                        !.atr14 = CalculateAtr(ks, 14).value,
                        !.current_volume = volumes[Len(ks)],
                        !.average_volume = QDiv(SumQ(volumes), QInt(Len(ks)))]
         IN  LongerTermLoop(data, ks, SaturatingSub(Len(ks), 10))

\* the price change that tests the close `back` candles back for `!= 0.0`
PriceChangeNotZeroTest(ks, back, current_price) ==
    IF Len(ks) >= back
    THEN LET ago == QInt(ks[Len(ks) - back + 1].close)
         IN  IF ago # Zero
             THEN QMul(QDiv(QSub(current_price, ago), ago), QInt(100))
             ELSE Zero
    ELSE Zero

\* (current_price - ago) / ago * 100.0 when the close `back` candles back is
\* there and positive, else 0.0 (lines 43-63)
PriceChange(ks, back, current_price) ==
    IF Len(ks) >= back
    THEN LET ago == QInt(ks[Len(ks) - back + 1].close)
         IN  IF QLess(Zero, ago)
             THEN QMul(QDiv(QSub(current_price, ago), ago), QInt(100))
             ELSE Zero
    ELSE Zero

\* what get returns
ReturnErr(error) == [kind |-> "Err", error |-> error]

ReturnOk(data) == [kind |-> "Ok", data |-> data]

\* funding_rate.unwrap() on None
Panic == [kind |-> "panic"]

\* get is awaiting try_join!
Awaiting(symbol) == [kind |-> "pending", symbol |-> symbol]

\* lines 31-80: the rest of get once try_join! handed over the four values
Assemble(symbol, klines3m, klines4h, oi_data, funding_rate) ==
    LET current_price ==
            IF Len(klines3m) = 0 THEN Zero ELSE QInt(klines3m[Len(klines3m)].close)
    IN  IF current_price = Zero THEN ReturnErr("InsufficientData")
        ELSE IF ~funding_rate.some THEN Panic
        ELSE ReturnOk([symbol |-> symbol,
                       current_price |-> current_price,
                       price_change_1h |-> PriceChange(klines3m, 21, current_price),
                       price_change_4h |-> PriceChange(klines4h, 2, current_price),
                       current_ema20 |-> CalculateEma(klines3m, 20).value,
                       current_macd |-> CalculateMacd(klines3m).value,
                       current_rsi7 |-> CalculateRsi(klines3m, 7).value,
                       open_interest |-> oi_data,
                       funding_rate |-> funding_rate.v,
                       intraday_series |-> Some(CalculateIntradaySeries(klines3m)),
                       longer_term_context |-> Some(CalculateLongerTermData(klines4h))])

\* try_join! that goes on polling after a future returned Err (a mutation).
AfterPollKeepsWaiting(snap, done) == snap

\* try_join! polled a future that completed: the first Err is returned at
\* once through `?`, the futures still pending are dropped
AfterPoll(snap, done) ==
    IF done.ok THEN snap ELSE ReturnErr(done.error)

\* a join that hands over once the two candle feeds are there (a mutation).
JoinedOnFeeds(f) ==
    \A r \in {"klines3m", "klines4h"} : f[r].st = "ready" /\ f[r].ok

\* try_join! hands the four values over: every future completed with Ok
Joined(f) == \A r \in Retrievals : f[r].st = "ready" /\ f[r].ok

\* a candle of a feed
Bar(c) == [high |-> c + 1, low |-> c - 1, close |-> c, volume |-> 10]

\* the bodies upstream may send for the 3m feed: no candle, a last close of
\* 0, a negative one, positive ones
ShortFeeds3m == {<<>>, <<Bar(0)>>, <<Bar(0 - 1)>>, <<Bar(2)>>, <<Bar(2), Bar(3)>>}

\* n candles: the close c repeated, then a last close k
FlatFeed(n, c, k) == [i \in 1..n |-> Bar(IF i < n THEN c ELSE k)]

\* the lengths of the longer 3m feeds, around the tests of get and of the
\* intraday series (7, 20, 21 and 26 candles)
FeedLens == {7, 8, 19, 20, 21, 22, 25, 26, 27}

\* the 3m feeds: the short ones, and longer ones whose earlier closes are
\* negative, 0 or positive
Feeds3m ==
    ShortFeeds3m
    \cup { FlatFeed(n, c, k) : n \in FeedLens, c \in {0 - 1, 0, 2}, k \in {2, 3} }

\* the 4h feeds: none, one, two and three candles, the close before the last
\* 0, negative or positive
Feeds4h == {<<>>, <<Bar(2), Bar(4)>>, <<Bar(2)>>, <<Bar(0), Bar(4)>>, <<Bar(0 - 1), Bar(4)>>,
            <<Bar(1), Bar(2), Bar(4)>>}

\* the symbols get is called with
SymbolInputs == {<<"b", "t", "c">>, <<"B", "T", "C", "U", "S", "D", "T">>, <<"e", "t", "h">>}

\* get(symbol): line 21 and the four futures created
InitGet ==
    /\ klines = <<>>
    /\ period = 0
    /\ ind = NoIndicator
    /\ fetch = [r \in Retrievals |-> Pending]
    /\ \E symbol \in SymbolInputs : snapshot = Awaiting(Normalize(symbol))
    /\ given = NoArgument
    /\ text = NoText

\* get_klines(&symbol, "3m", 50) completes
CompleteKlines3m ==
    /\ snapshot.kind = "pending"
    /\ fetch["klines3m"].st = "pending"
    /\ \E resp \in KlineAnswers, body \in Feeds3m :
         LET done == GetKlines(resp, body)
         IN  /\ fetch' = [fetch EXCEPT !["klines3m"] = done]
             /\ snapshot' = AfterPoll(snapshot, done)
    /\ UNCHANGED <<klines, period, ind, replayVars, ledgerVars, readVars, textVars>>

\* get_klines(&symbol, "4h", 60) completes
CompleteKlines4h ==
    /\ snapshot.kind = "pending"
    /\ fetch["klines4h"].st = "pending"
    /\ \E resp \in KlineAnswers, body \in Feeds4h :
         LET done == GetKlines(resp, body)
         IN  /\ fetch' = [fetch EXCEPT !["klines4h"] = done]
             /\ snapshot' = AfterPoll(snapshot, done)
    /\ UNCHANGED <<klines, period, ind, replayVars, ledgerVars, readVars, textVars>>

\* get_open_interest_data(&symbol) completes
CompleteOpenInterest ==
    /\ snapshot.kind = "pending"
    /\ fetch["oi_data"].st = "pending"
    /\ \E resp \in FuturesAnswers :
         LET done == GetOpenInterestData(resp, QInt(1000))
         IN  /\ fetch' = [fetch EXCEPT !["oi_data"] = done]
             /\ snapshot' = AfterPoll(snapshot, done)
    /\ UNCHANGED <<klines, period, ind, replayVars, ledgerVars, readVars, textVars>>

\* get_funding_rate(&symbol) completes
CompleteFundingRate ==
    /\ snapshot.kind = "pending"
    /\ fetch["funding_rate"].st = "pending"
    /\ \E resp \in FuturesAnswers :
         LET done == GetFundingRate(resp, Q(1, 10000))
         IN  /\ fetch' = [fetch EXCEPT !["funding_rate"] = done]
             /\ snapshot' = AfterPoll(snapshot, done)
    /\ UNCHANGED <<klines, period, ind, replayVars, ledgerVars, readVars, textVars>>

\* lines 29-80: try_join! hands over and get runs to its return
AssembleSnapshot ==
    /\ snapshot.kind = "pending"
    /\ Joined(fetch)
    /\ snapshot' = Assemble(snapshot.symbol, fetch["klines3m"].val, fetch["klines4h"].val,
                            fetch["oi_data"].val, fetch["funding_rate"].val)
    /\ UNCHANGED <<klines, period, ind, fetch, replayVars, ledgerVars, readVars, textVars>>

---------------------------------------------------------------------------
(* The text functions of src/src/data.rs: normalize, and format, whose     *)
(* report is kept as the sequence of the lines it writes.                  *)

MaxSymbol == 4        \* longest symbol tried letter by letter

\* the letters of the symbols tried
SymbolLetters == {"u", "s", "d", "t", "U", "S", "D", "T", "b"}

\* the symbols normalize is called with: every string of up to MaxSymbol
\* letters, and those of get
NormalizeInputs ==
    UNION { [1..n -> SymbolLetters] : n \in 0..MaxSymbol }
    \cup SymbolInputs
    \cup { <<"b", "t", "c", "u", "s", "d", "t">>, <<"B", "T", "C", "u", "S", "d", "T">> }

\* one writeln! of format: the block it belongs to, the text it starts with,
\* the values it prints and the decimals it prints each of them to
Line(block, label, decimals, values) ==
    [block |-> block, label |-> label, decimals |-> decimals, values |-> values]

\* format_float_slice: every value to 3 decimals, in order, in brackets
FormatFloatSlice(block, label, values) ==
    Line(block, label, [i \in 1..Len(values) |-> 3], values)

\* format: the lines written, in order
Format(data) ==
    << Line("head", "current_price", <<2, 3, 3, 3>>,
            <<data.current_price, data.current_ema20, data.current_macd, data.current_rsi7>>),
       Line("head", "In addition", <<0>>, <<data.symbol>>) >>
    \o (IF data.open_interest.some
        THEN << Line("head", "Open Interest", <<2, 2>>,
                     <<data.open_interest.v.latest, data.open_interest.v.average>>) >>
        ELSE <<>>)
    \o << Line("head", "Funding Rate", <<2>>, <<data.funding_rate>>) >>
    \o << Line("intraday", "Intraday series", <<>>, <<>>) >>
    \o (IF data.intraday_series.some
        THEN LET intraday_series == data.intraday_series.v
             IN  << FormatFloatSlice("intraday", "Mid prices", intraday_series.mid_prices),
                    FormatFloatSlice("intraday", "EMA indicators (20-period)", intraday_series.ema20_values),
                    FormatFloatSlice("intraday", "MACD indicators", intraday_series.macd_values),
                    FormatFloatSlice("intraday", "RSI indicators (7-Period)", intraday_series.rsi7_values),
                    FormatFloatSlice("intraday", "RSI indicators (14-Period)", intraday_series.rsi14_values) >>
        ELSE <<>>)
    \o << Line("longer", "Longer-term context", <<>>, <<>>) >>
    \o (IF data.longer_term_context.some
        THEN LET ltc == data.longer_term_context.v
             IN  << Line("longer", "20-Period EMA", <<3, 3>>, <<ltc.ema20, ltc.ema50>>),
                    Line("longer", "3-Period ATR", <<3, 3>>, <<ltc.atr3, ltc.atr14>>),
                    Line("longer", "Current Volume", <<3, 3>>, <<ltc.current_volume, ltc.average_volume>>),
                    FormatFloatSlice("longer", "MACD indicators", ltc.macd_values),
                    FormatFloatSlice("longer", "RSI indicators (14-Period)", ltc.rsi14_values) >>
        ELSE <<>>)

\* how an optional part of the Data value may be given
Parts == {"absent", "empty", "filled"}

\* a Data value format is called with: its open interest, its intraday
\* series and its longer-term context each absent, or present and empty, or
\* present and filled
FormatInput(price, oi, intraday, ltc) ==
    [symbol |-> Normalize(<<"b", "t", "c">>),
     current_price |-> QInt(price),
     price_change_1h |-> Zero,
     price_change_4h |-> Zero,
     current_ema20 |-> Zero,
     current_macd |-> Zero,
     current_rsi7 |-> Zero,
     open_interest |->
         CASE oi = "absent" -> None
           [] oi = "empty" -> Some([latest |-> Zero, average |-> Zero])
           [] OTHER -> Some([latest |-> QInt(1000), average |-> QInt(999)]),
     funding_rate |-> Q(1, 10000),
     intraday_series |->
         CASE intraday = "absent" -> None
           [] intraday = "empty" -> Some(NoIntraday)
           [] OTHER -> Some(CalculateIntradaySeries(<<Bar(2), Bar(3)>>)),
     longer_term_context |->
         CASE ltc = "absent" -> None
           [] ltc = "empty" -> Some(NoLongerTerm)
           [] OTHER -> Some(CalculateLongerTermData(<<Bar(2), Bar(4)>>))]

InitText ==
    /\ klines = <<>>
    /\ period = 0
    /\ ind = NoIndicator
    /\ fetch = <<>>
    /\ snapshot = [kind |-> "idle"]
    /\ \/ \E symbol \in NormalizeInputs : given = [fn |-> "normalize", v |-> symbol]
       \/ \E price \in {2, 3}, oi \in Parts, intraday \in Parts, ltc \in Parts :
             given = [fn |-> "format", v |-> FormatInput(price, oi, intraday, ltc)]
    /\ text = NoText

\* normalize(symbol)
CallNormalize ==
    /\ given.fn = "normalize"
    /\ text = NoText
    /\ text' = [op |-> "normalize", arg |-> given.v, ret |-> Normalize(given.v), again |-> FALSE]
    /\ UNCHANGED <<given, klines, period, ind, fetch, snapshot, replayVars, ledgerVars, readVars>>

\* normalize on what normalize returned
CallNormalizeAgain ==
    /\ text.op = "normalize"
    /\ ~text.again
    /\ text' = [op |-> "normalize", arg |-> text.ret, ret |-> Normalize(text.ret), again |-> TRUE]
    /\ UNCHANGED <<given, klines, period, ind, fetch, snapshot, replayVars, ledgerVars, readVars>>

\* format(&data)
CallFormat ==
    /\ given.fn = "format"
    /\ text = NoText
    /\ text' = [op |-> "format", arg |-> given.v, ret |-> Format(given.v)]
    /\ UNCHANGED <<given, klines, period, ind, fetch, snapshot, replayVars, ledgerVars, readVars>>

\* no call of src/src/data.rs is in progress
InitDataIdle ==
    /\ klines = <<>>
    /\ period = 0
    /\ ind = NoIndicator
    /\ fetch = <<>>
    /\ snapshot = [kind |-> "idle"]
    /\ given = NoArgument
    /\ text = NoText

---------------------------------------------------------------------------
(* Specifications. *)

Init == InitReplay /\ InitLedger /\ InitDataIdle

Next ==
    \/ Call
    \/ PrimeStep
    \/ PrimeDone
    \/ WindowStep
    \/ WindowDone

\* analyze_performance over every directory within the bounds
Spec == Init /\ [][Next]_vars

InitL == InitReplayIdle /\ InitLedger /\ InitDataIdle

NextL ==
    \/ NewLogger
    \/ LogDecision
    \/ Tick

\* the append path of the ledger
SpecLedger == InitL /\ [][NextL]_vars

NextA ==
    \/ NewLogger
    \/ LogDecision
    \/ Tick
    \/ CallGetLatestRecords

\* the append path with get_latest_records called between the appends
SpecAppendRead == InitL /\ [][NextA]_vars

InitR == InitReplayIdle /\ InitRead /\ InitDataIdle

NextR ==
    \/ CallGetLatestRecords
    \/ CallGetRecordByDate
    \/ CallGetStatistics
    \/ CallCleanOldRecords

\* the read paths and the prune over every directory within the bounds
SpecRead == InitR /\ [][NextR]_vars

InitI == InitReplayIdle /\ InitLedger /\ InitIndicators

NextI ==
    \/ CallCalculateEma
    \/ CallCalculateMacd
    \/ CallCalculateRsi
    \/ CallCalculateAtr
    \/ CallCalculateIntradaySeries

\* the indicator functions over every candle slice within the bounds
SpecIndicators == InitI /\ [][NextI]_vars

InitG == InitReplayIdle /\ InitLedger /\ InitGet

NextG ==
    \/ CompleteKlines3m
    \/ CompleteKlines4h
    \/ CompleteOpenInterest
    \/ CompleteFundingRate
    \/ AssembleSnapshot

\* one call of get, the four retrievals completing in any order
SpecGet == InitG /\ [][NextG]_vars

InitT == InitReplayIdle /\ InitLedger /\ InitText

NextT ==
    \/ CallNormalize
    \/ CallNormalizeAgain
    \/ CallFormat

\* one call of normalize, and one more on its result, or one call of format
SpecText == InitT /\ [][NextT]_vars

---------------------------------------------------------------------------
(* The claims about the replay, checked under Spec.                        *)

\* the side the specification derives from an action kind
ClaimSide(a) == IF a \in {"open_long", "close_long"} THEN "long" ELSE "short"

\* the (symbol, side) key of an action under that derivation
ClaimKey(act) == PosKey(act.symbol, ClaimSide(act.action))

Stepped == last.pass \in {"prime", "window"}

\* the last iteration appended a TradeOutcome
Produced == Len(outcomes) > last.nbefore

\* actions of the wider history that precede the window
Offset == Len(PrimeActs) - Len(WindowActs)

\* a and b are successful actions on the same (symbol, side)
SameKey(a, b) == a.success /\ b.success /\ ClaimKey(a) = ClaimKey(b)

\* C1: in the window pass, a successful close that follows a successful open of
\* the same symbol and side, with no successful action on that key in between,
\* yields exactly one TradeOutcome with pnl = quantity*(close - open) for long,
\* quantity*(open - close) for short, position_value = quantity*open_price and
\* margin_used = position_value/leverage.
C1_ClosePairsWithOpen ==
    (last.pass = "window" /\ last.act.success /\ IsClose(last.act.action)) =>
        \A j \in 1..(last.at - 1) :
            LET o == WindowActs[j]
                c == last.act
            IN  ( /\ IsOpen(o.action)
                  /\ SameKey(o, c)
                  /\ \A k \in (j + 1)..(last.at - 1) : ~SameKey(WindowActs[k], c) )
                => /\ Len(outcomes) = last.nbefore + 1
                   /\ LET t == outcomes[Len(outcomes)]
                      IN  /\ t.pn_l = IF ClaimSide(c.action) = "long"
                                      THEN o.quantity * (c.price - o.price)
                                      ELSE o.quantity * (o.price - c.price)
                          /\ t.position_value = o.quantity * o.price
                          /\ t.margin_used = Frac(o.quantity * o.price, o.leverage)

\* C2: in both passes the side of the position key of a successful action is
\* long for open_long and close_long, short for open_short and close_short.
C2_SideFollowsKind ==
    (Stepped /\ last.act.success) => last.side = ClaimSide(last.act.action)

\* C3: once a successful close of the window pass has been matched with an open
\* position, the map no longer holds the key of that (symbol, side).
C3_MatchedCloseClearsKey ==
    (last.pass = "window" /\ last.act.success /\ IsClose(last.act.action) /\ Produced)
        => ClaimKey(last.act) \notin DOMAIN open_positions

\* C4: a successful close of a (symbol, side) that has no open state produces
\* no TradeOutcome and leaves the whole open-position map as it was.
C4_UnmatchedCloseIsNoOp ==
    ( /\ Stepped
      /\ last.act.success
      /\ IsClose(last.act.action)
      /\ ClaimKey(last.act) \notin DOMAIN last.before )
    => /\ open_positions = last.before
       /\ Len(outcomes) = last.nbefore

\* C4 happens: an unmatched successful close ran in the window pass while
\* another key was open.
C4_Witness ==
    /\ last.pass = "window"
    /\ last.act.success
    /\ IsClose(last.act.action)
    /\ ClaimKey(last.act) \notin DOMAIN last.before
    /\ last.before # EmptyMap

\* C5: a successful open sets the open state of its own (symbol, side) key to
\* its price, time, quantity and leverage.
C5_OpenSetsOwnKey ==
    (Stepped /\ last.act.success /\ IsOpen(last.act.action)) =>
        /\ ClaimKey(last.act) \in DOMAIN open_positions
        /\ LET e == open_positions[ClaimKey(last.act)]
           IN  /\ e.open_price = last.act.price
               /\ e.open_time = last.act.timestamp
               /\ e.quantity = last.act.quantity
               /\ e.leverage = last.act.leverage

\* the directory dir with every failed action deleted from its records
WithoutFailed(dir) ==
    LET Ok(a) == a.success
    IN  [i \in 1..Len(dir) |->
            [dir[i] EXCEPT !.record.decisions = SelectSeq(@, Ok)]]

\* C6: an action with success = false changes neither the open-position map nor
\* the outcomes, in either pass, and the replay of a log ends as the replay of
\* the log with its failed actions deleted.
C6_FailedActionsIgnored ==
    /\ (Stepped /\ ~last.act.success) =>
           /\ open_positions = last.before
           /\ Len(outcomes) = last.nbefore
    /\ (pc = "done") => State = Analyze(WithoutFailed(stored), lookback_cycles)

\* C6 happens: a failed action was replayed while a position was open, and the
\* replay went on to its end.
C6_Witness ==
    /\ pc = "done"
    /\ Stepped
    /\ ~last.act.success
    /\ last.before # EmptyMap

\* successful closes among the first n actions of the window
WindowCloses(n) ==
    Cardinality({k \in 1..n : WindowActs[k].success /\ IsClose(WindowActs[k].action)})

\* C7: every TradeOutcome comes from a successful close of the window pass that
\* found an open position under its key; the priming pass adds none, and the
\* outcomes never outnumber the successful closes of the window.
C7_OutcomesOnlyFromWindowCloses ==
    /\ (pc \in {"call", "prime"}) => outcomes = <<>>
    /\ (pc \in {"window", "done"}) => Len(outcomes) <= WindowCloses(idx)
    /\ (Stepped /\ Produced) =>
           /\ last.pass = "window"
           /\ last.act.success
           /\ IsClose(last.act.action)
           /\ last.key \in DOMAIN last.before
           /\ Len(outcomes) = last.nbefore + 1

\* C7 happens: after a priming pass, the window pass has produced an outcome.
C7_Witness ==
    /\ pc = "done"
    /\ Primes
    /\ Len(outcomes) >= 1

\* C8: when the wider history is longer than the window, a successful close of
\* the window whose matching successful open lies before the window, with no
\* successful action on that key in between, is paired with that open and
\* yields a TradeOutcome.
C8_PrimedOpenIsPaired ==
    (last.pass = "window" /\ Primes /\ last.act.success /\ IsClose(last.act.action)) =>
        \A j \in 1..Offset :
            LET o == PrimeActs[j]
                c == last.act
            IN  ( /\ IsOpen(o.action)
                  /\ SameKey(o, c)
                  /\ \A k \in (j + 1)..(Offset + last.at - 1) : ~SameKey(PrimeActs[k], c) )
                => /\ Produced
                   /\ outcomes[Len(outcomes)].open_price = o.price

---------------------------------------------------------------------------
(* The claims about the append path, checked under SpecLedger.             *)

\* C9: the cycle numbers one instance assigns are strictly increasing in call
\* order, whether the persistence steps succeed or fail.
C9_CyclesStrictlyIncrease ==
    \A i, j \in DOMAIN assigned : i < j => assigned[i] < assigned[j]

\* C9 happens: an instance made three appends and the second one left no file.
C9_Witness ==
    /\ Len(assigned) = 3
    /\ \A t \in 0..MaxTime : FileName(t, assigned[2]) \notin DOMAIN files
    /\ \E t \in 0..MaxTime : FileName(t, assigned[3]) \in DOMAIN files

\* C10: an append never overwrites or alters a record persisted before it.
C10_AppendKeepsPriorRecords ==
    [][ appends' # appends =>
          \A f \in DOMAIN files : f \in DOMAIN files' /\ files'[f] = files[f] ]_vars

---------------------------------------------------------------------------
(* The claims about the read paths and the prune.                          *)

\* every caller's record so far is on disk under a name of its own and parses
AllKept ==
    /\ \A f \in DOMAIN files : files[f].parsable
    /\ {files[f].record.id : f \in DOMAIN files} = 1..appends

\* the callers' record ids of a list of records
RecordIds(recs) == [i \in 1..Len(recs) |-> recs[i].id]

\* C11: get_latest_records(n) returns the n most recently persisted records,
\* oldest first in the order they were appended, and all of them when there
\* are fewer than n. Stated where every appended record is still on disk and
\* parses: the ids returned are the last min(n, appends) ids in rising order.
C11_LatestInAppendOrder ==
    (readout.op = "latest" /\ readout.dir_ok /\ AllKept) =>
        LET k == Min(readout.n, appends)
        IN  RecordIds(readout.ret.records) = [i \in 1..k |-> appends - k + i]

\* the file names a bulk read scanned, in scan order
Scanned ==
    LET names == SortNames(DOMAIN files)
    IN  CASE readout.op = "latest" ->
                SubSeq(names, Len(names) - Min(readout.n, Len(names)) + 1, Len(names))
          [] readout.op = "by_date" ->
                SortNames({f \in DOMAIN files : NameParts(f)[1] = readout.date})
          [] OTHER -> names

\* the scanned files that parse
ParsableScanned == {Scanned[i] : i \in {j \in 1..Len(Scanned) : files[Scanned[j]].parsable}}

\* C12: a record that cannot be read or parsed is skipped by get_latest_records,
\* get_record_by_date and get_statistics: the scan returns Ok, and every
\* parsable record of the scanned set is returned (counted, for the statistics)
\* exactly once.
C12_UnparsableIsSkipped ==
    (readout.op \in {"latest", "by_date", "statistics"} /\ readout.dir_ok) =>
        /\ readout.ret.ok
        /\ readout.op = "statistics" =>
               readout.ret.stats.total_cycles = Cardinality(ParsableScanned)
        /\ readout.op # "statistics" =>
               /\ Len(readout.ret.records) = Cardinality(ParsableScanned)
               /\ {readout.ret.records[i] : i \in 1..Len(readout.ret.records)}
                      = {files[f].record : f \in ParsableScanned}

\* get_latest_records scanned a file that does not parse and, after it, one that does
C12_Witness ==
    /\ readout.op = "latest"
    /\ readout.dir_ok
    /\ \E i, j \in 1..Len(Scanned) :
         /\ i < j
         /\ ~files[Scanned[i]].parsable
         /\ files[Scanned[j]].parsable
         /\ files[Scanned[j]].record
                = readout.ret.records[Len(readout.ret.records)]

\* the files clean_old_records found modified before its cutoff
Predating == {f \in DOMAIN readout.before :
                  readout.before[f].mtime < readout.cutoff_time}

\* C13 as stated: clean_old_records removes exactly the records whose storage
\* timestamp predates the cutoff, leaves the others untouched, and returns the
\* count of records removed.
C13_PruneReturnsCount ==
    (readout.op = "clean" /\ readout.dir_ok) =>
        /\ DOMAIN files = (DOMAIN readout.before) \ Predating
        /\ \A f \in DOMAIN files : files[f] = readout.before[f]
        /\ "count" \in DOMAIN readout.ret
        /\ readout.ret.count = Cardinality(Predating)

\* C13, amended: clean_old_records removes every record whose storage timestamp
\* predates the cutoff and whose deletion succeeds, leaves every other record
\* untouched, and returns Ok(()) with no count; the number removed goes to the
\* log only.
C13_PruneRemovesOldLogsCount ==
    (readout.op = "clean" /\ readout.dir_ok) =>
        /\ DOMAIN files = (DOMAIN readout.before) \ (Predating \ readout.failing)
        /\ \A f \in DOMAIN files : files[f] = readout.before[f]
        /\ readout.ret = [ok |-> TRUE]
        /\ readout.removed_count = Cardinality(Predating \ readout.failing)

\* a prune that removed a file, kept one modified at the cutoff to the second
\* and kept an older one whose deletion failed
C13_Witness ==
    /\ readout.op = "clean"
    /\ readout.dir_ok
    /\ readout.removed_count > 0
    /\ \E f \in DOMAIN files : files[f].mtime = readout.cutoff_time
    /\ \E f \in DOMAIN files : f \in Predating /\ f \in readout.failing

---------------------------------------------------------------------------
(* The claims about the indicator functions, checked under SpecIndicators. *)

\* C18: for a slice of L candles and a period p >= 1, calculate_ema returns
\* 0.0 when L < p, calculate_macd returns 0.0 when L < 26, calculate_rsi and
\* calculate_atr return 0.0 when L <= p; and none of the four panics on an
\* index or a slice bound out of the slice, for any L, 0 included.
C18_ShortSlicesGiveZero ==
    ind.op # "none" =>
        /\ ~ind.ret.panic
        /\ (ind.op = "ema" /\ Len(klines) < period) => ind.ret.value = Zero
        /\ (ind.op = "macd" /\ Len(klines) < 26) => ind.ret.value = Zero
        /\ (ind.op \in {"rsi", "atr"} /\ Len(klines) <= period) => ind.ret.value = Zero

\* calculate_rsi returned 0.0 for a slice of exactly period candles
C18_Witness ==
    /\ ind.op = "rsi"
    /\ Len(klines) = period
    /\ ind.ret = Returned(Zero)

\* no close of the slice is under the close before it
NoFall == \A i \in 1..(Len(klines) - 1) : klines[i + 1].close >= klines[i].close

C20_AtrNotNegative ==
    ind.op = "atr" =>
        /\ ~ind.ret.panic
        /\ QLeq(Zero, ind.ret.value)

\* calculate_atr returned a positive value for a slice holding a candle whose
\* high is under its low and under the close before it
C20_Witness ==
    /\ ind.op = "atr"
    /\ Len(klines) > period + 1
    /\ \E i \in 2..Len(klines) :
         /\ klines[i].high < klines[i].low
         /\ klines[i].low < klines[i - 1].close
    /\ QLess(Zero, ind.ret.value)

---------------------------------------------------------------------------
(* The claims about get, checked under SpecGet.                            *)

\* get has returned or panicked
GetReturned == snapshot.kind \in {"Ok", "Err", "panic"}

\* the last close of the 3m feed is there and positive
PriceUsable ==
    LET ks == fetch["klines3m"].val
    IN  Len(ks) > 0 /\ ks[Len(ks)].close > 0

\* C14: when upstream answers the open-interest or the funding-rate request
\* with a non-success status, get does not fail: it returns a snapshot with
\* that series absent, for the funding rate as for the open interest and for
\* both at once. Stated for the calls whose four retrievals ended without a
\* transport or parse failure and whose last 3m close is positive.
C14_NonSuccessLeavesSeriesAbsent ==
    (/\ GetReturned
     /\ Joined(fetch)
     /\ PriceUsable
     /\ \E r \in {"oi_data", "funding_rate"} : fetch[r].resp = "non_success") =>
        /\ snapshot.kind = "Ok"
        /\ fetch["oi_data"].resp = "non_success" => snapshot.data.open_interest = None
        /\ fetch["funding_rate"].resp = "non_success" => snapshot.data.funding_rate = None

\* C15: if any of the four retrievals ends in a transport or parse failure,
\* get fails with that failure and returns no snapshot, in whatever order the
\* retrievals complete and even when the other three completed with success.
C15_HardFailureFailsBuild ==
    \A r \in Retrievals :
        (fetch[r].st = "ready" /\ ~fetch[r].ok) =>
            snapshot = ReturnErr(fetch[r].error)

\* the funding-rate retrieval failed after the other three had completed with success
C15_Witness ==
    /\ fetch["funding_rate"].st = "ready"
    /\ ~fetch["funding_rate"].ok
    /\ \A r \in Retrievals \ {"funding_rate"} : fetch[r].st = "ready" /\ fetch[r].ok
    /\ snapshot.kind = "Err"

\* C16: every snapshot get returns has current_price > 0; when the last 3m
\* close is missing, zero or negative, get fails with InsufficientData and
\* returns no snapshot.
C16_PriceIsPositive ==
    /\ snapshot.kind = "Ok" => QLess(Zero, snapshot.data.current_price)
    /\ (GetReturned /\ Joined(fetch) /\ ~PriceUsable) =>
           snapshot = ReturnErr("InsufficientData")

\* C17 as stated: get never assembles a snapshot and never returns a result,
\* success or failure, while any of the four retrievals is still pending.
C17_NoResultWhilePending ==
    GetReturned => \A r \in Retrievals : fetch[r].st = "ready"

\* C17, amended: get never assembles a snapshot, and never returns success or
\* the insufficient-data failure, while any of the four retrievals is still
\* pending; the failure of a retrieval is returned as soon as that retrieval
\* fails, the others pending or not.
C17_NoSnapshotWhilePending ==
    (GetReturned /\ snapshot # ReturnErr("RequestError")
                  /\ snapshot # ReturnErr("ParseFloatError")) =>
        \A r \in Retrievals : fetch[r].st = "ready" /\ fetch[r].ok

\* get returned a snapshot, the four retrievals complete
C17_Witness ==
    /\ snapshot.kind = "Ok"
    /\ \A r \in Retrievals : fetch[r].st = "ready"

---------------------------------------------------------------------------
(* The claims about the moving averages, the statistics, the counter, the  *)
(* series, the price changes, the analysis and the text functions.         *)

RECURSIVE RefEma(_, _, _)
\* the reference recurrence over the first n closes, n >= p: the mean of the
\* first p closes, then ema = (close - ema) * 2 / (p + 1) + ema
RefEma(ks, p, n) ==
    IF n = p THEN QDiv(SumQ([i \in 1..p |-> QInt(ks[i].close)]), QInt(p))
    ELSE LET prev == RefEma(ks, p, n - 1)
         IN  Eager(prev, QAdd(QDiv(QMul(QSub(QInt(ks[n].close), prev), QInt(2)), QInt(p + 1)), prev))

\* C21: on a slice of at least `period` candles calculate_ema returns the
\* reference recurrence (4 for closes 1, 2, 3, 4, 5 and period 3), and on
\* 26 candles or more calculate_macd returns calculate_ema(12) minus
\* calculate_ema(26)
C21_EmaFollowsRecurrence ==
    /\ (ind.op = "ema" /\ Len(klines) >= period) =>
           /\ ~ind.ret.panic
           /\ ind.ret.value = RefEma(klines, period, Len(klines))
    /\ (ind.op = "ema" /\ klines = RisingSlice /\ period = 3) =>
           /\ ~ind.ret.panic
           /\ ind.ret.value = QInt(4)
    /\ (ind.op = "macd" /\ Len(klines) >= 26) =>
           /\ ~ind.ret.panic
           /\ ind.ret.value = QSub(RefEma(klines, 12, Len(klines)), RefEma(klines, 26, Len(klines)))

\* calculate_ema has returned 4 for the rising slice and period 3
C21_Witness ==
    /\ ind.op = "ema"
    /\ klines = RisingSlice
    /\ period = 3
    /\ ind.ret = Returned(QInt(4))

\* calculate_macd has returned a value other than 0.0 on 26 candles or more
C21_MacdSeen ==
    /\ ind.op = "macd"
    /\ Len(klines) >= 26
    /\ ~ind.ret.panic
    /\ ind.ret.value # Zero

\* the files of the directory that hold a parsable record
ParsableFiles == {f \in DOMAIN files : files[f].parsable}

\* the successful actions of the parsable records whose kind is in kinds, each
\* named by its file and its place in the record
SuccessfulActions(kinds) ==
    UNION { { <<f, i>> : i \in { j \in DOMAIN files[f].record.decisions :
                                  /\ files[f].record.decisions[j].success
                                  /\ files[f].record.decisions[j].action \in kinds } }
            : f \in ParsableFiles }

\* C29: get_statistics counts every parsable record once, as successful or as
\* failed by its success flag, and counts exactly the successful open_* and
\* close_* actions of those records; unparsable files and failed actions
\* add to no counter
C29_StatisticsCountParsable ==
    (readout.op = "statistics" /\ readout.dir_ok) =>
        /\ readout.ret.stats.total_cycles = Cardinality(ParsableFiles)
        /\ readout.ret.stats.total_cycles
              = readout.ret.stats.successful_cycles + readout.ret.stats.failed_cycles
        /\ readout.ret.stats.successful_cycles
              = Cardinality({f \in ParsableFiles : files[f].record.success})
        /\ readout.ret.stats.total_open_positions
              = Cardinality(SuccessfulActions({"open_long", "open_short"}))
        /\ readout.ret.stats.total_close_positions
              = Cardinality(SuccessfulActions({"close_long", "close_short"}))

\* statistics of a directory with an unparsable file, a successful record
\* holding a failed action, and a failed record
C29_Witness ==
    /\ readout.op = "statistics"
    /\ readout.dir_ok
    /\ \E f \in DOMAIN files : ~files[f].parsable
    /\ \E f \in ParsableFiles : \E j \in DOMAIN files[f].record.decisions :
          ~files[f].record.decisions[j].success
    /\ readout.ret.stats = [total_cycles |-> 2, successful_cycles |-> 1, failed_cycles |-> 1,
                      total_open_positions |-> 1, total_close_positions |-> 1]

\* the files a step wrote: new names, and names whose document changed
Written == {f \in DOMAIN files' : f \notin DOMAIN files \/ files'[f] # files[f]}

\* C30: every log_decision call, failed or not, advances the counter by one
\* and stamps the record with the new number; a record it persists carries
\* that number and the current second, above every number the instance gave
\* out before; the counter goes back only when a new instance starts at 0
C30_FailedAppendConsumesCycle ==
    [][ /\ appends' # appends =>
             /\ cycle_number' = cycle_number + 1
             /\ assigned' = Append(assigned, cycle_number')
             /\ \A f \in Written : files'[f].parsable =>
                    /\ files'[f].record.cycle_number = cycle_number'
                    /\ files'[f].record.timestamp = now
                    /\ \A i \in DOMAIN assigned :
                           assigned[i] < files'[f].record.cycle_number
        /\ appends' = appends =>
             \/ cycle_number' = cycle_number
             \/ cycle_number' = 0 /\ assigned' = <<>> ]_vars

\* one instance persisted cycles 1 and 3; cycle 2 went to an append that
\* left nothing on disk
C30_Witness ==
    /\ appends = 3
    /\ assigned = <<1, 2, 3>>
    /\ cycle_number = 3
    /\ {files[f].record.cycle_number : f \in {g \in DOMAIN files : files[g].parsable}} = {1, 3}
    /\ \A f \in DOMAIN files : files[f].parsable

\* the keys whose open state the last step changed: set, overwritten or removed
Touched ==
    {k \in (DOMAIN open_positions) \cup (DOMAIN last.before) :
        \/ k \notin DOMAIN open_positions
        \/ k \notin DOMAIN last.before
        \/ open_positions[k] # last.before[k]}

\* C27: a successful action changes the open state of no key but its own
\* (symbol, side): an open_short or close_short leaves the long position of
\* its symbol as it was, and no action touches another symbol
C27_ActionTouchesOwnKeyOnly ==
    (Stepped /\ last.act.success) => Touched \subseteq {ClaimKey(last.act)}

\* the lengths of the prefixes calculate_intraday_series walks: the last ten
Prefixes == {n \in 1..Len(klines) : n > Len(klines) - 10}

\* the prefix the j-th value of a series of length len was computed on
PrefixOf(len, j) == SubSeq(klines, 1, Len(klines) - len + j)

\* C24: mid_prices holds the closes of the last min(10, L) candles in order;
\* each indicator series holds one value per walked prefix with enough
\* history (20 for EMA20, 26 for MACD, more than 7 for RSI7, more than 14
\* for RSI14), computed on that prefix, so it is no longer than mid_prices
\* and holds no value of a prefix that is too short
C24_SeriesOnlyWithHistory ==
    ind.op = "intraday" =>
        LET d == ind.ret.value
            L == Len(klines)
        IN  /\ Len(d.mid_prices) = Min(10, L)
            /\ \A j \in DOMAIN d.mid_prices :
                   d.mid_prices[j] = QInt(klines[L - Len(d.mid_prices) + j].close)
            /\ Len(d.ema20_values) = Cardinality({n \in Prefixes : n >= 20})
            /\ \A j \in DOMAIN d.ema20_values :
                   LET ks == PrefixOf(Len(d.ema20_values), j)
                   IN  Len(ks) >= 20 /\ d.ema20_values[j] = CalculateEma(ks, 20).value
            /\ Len(d.macd_values) = Cardinality({n \in Prefixes : n >= 26})
            /\ \A j \in DOMAIN d.macd_values :
                   LET ks == PrefixOf(Len(d.macd_values), j)
                   IN  Len(ks) >= 26 /\ d.macd_values[j] = CalculateMacd(ks).value
            /\ Len(d.rsi7_values) = Cardinality({n \in Prefixes : n > 7})
            /\ \A j \in DOMAIN d.rsi7_values :
                   LET ks == PrefixOf(Len(d.rsi7_values), j)
                   IN  Len(ks) > 7 /\ d.rsi7_values[j] = CalculateRsi(ks, 7).value
            /\ Len(d.rsi14_values) = Cardinality({n \in Prefixes : n > 14})
            /\ \A j \in DOMAIN d.rsi14_values :
                   LET ks == PrefixOf(Len(d.rsi14_values), j)
                   IN  Len(ks) > 14 /\ d.rsi14_values[j] = CalculateRsi(ks, 14).value
            /\ \A x \in {d.ema20_values, d.macd_values, d.rsi7_values, d.rsi14_values} :
                   Len(x) <= Len(d.mid_prices)

\* a feed of 20 candles: ten mid prices, one EMA20 value, no MACD value, ten
\* RSI7 values and six RSI14 values
C24_Witness ==
    /\ ind.op = "intraday"
    /\ Len(klines) = 20
    /\ Len(ind.ret.value.mid_prices) = 10
    /\ Len(ind.ret.value.ema20_values) = 1
    /\ Len(ind.ret.value.macd_values) = 0
    /\ Len(ind.ret.value.rsi7_values) = 10
    /\ Len(ind.ret.value.rsi14_values) = 6

\* the feeds try_join! handed to the rest of get
Klines3m == fetch["klines3m"].val

Klines4h == fetch["klines4h"].val

\* the percentage the claim gives for a feed, `back` candles counted from
\* the end, and a current price
ClaimedChange(ks, back, price) ==
    IF Len(ks) < back THEN Zero
    ELSE LET ref == ks[Len(ks) + 1 - back].close
         IN  IF ref <= 0 THEN Zero
             ELSE Q((price.num - ref * price.den) * 100, ref * price.den)

\* C23: the price changes of a snapshot are (current_price - ref) / ref * 100
\* with ref the close 21 candles from the end of the 3m feed and 2 candles
\* from the end of the 4h feed, and 0.0 when the feed is shorter than that or
\* ref is not positive
C23_PriceChangeFromReference ==
    snapshot.kind = "Ok" =>
        /\ snapshot.data.price_change_1h
              = ClaimedChange(Klines3m, 21, snapshot.data.current_price)
        /\ snapshot.data.price_change_4h
              = ClaimedChange(Klines4h, 2, snapshot.data.current_price)

\* a snapshot of a 3m feed of 21 candles or more and a 4h feed of 2 or more,
\* both price changes computed and not 0.0
C23_Witness ==
    /\ snapshot.kind = "Ok"
    /\ Len(Klines3m) >= 21
    /\ Len(Klines4h) >= 2
    /\ snapshot.data.price_change_1h # Zero
    /\ snapshot.data.price_change_4h # Zero

\* a snapshot whose 3m reference close is not positive and whose 4h feed is
\* too short: both price changes are 0.0
C23_DefaultSeen ==
    /\ snapshot.kind = "Ok"
    /\ Len(Klines3m) >= 21
    /\ Klines3m[Len(Klines3m) - 20].close <= 0
    /\ Len(Klines4h) < 2
    /\ snapshot.data.price_change_1h = Zero
    /\ snapshot.data.price_change_4h = Zero

\* the last element of a series that is not empty
LastOf(xs) == xs[Len(xs)]

\* C28: in a snapshot the last mid price is current_price, and each of the
\* EMA20, MACD and RSI7 series either ends with the current value of its
\* indicator or is empty, which it is exactly when the 3m feed is too short
\* for the indicator (under 20, under 26, at most 7 candles) and the current
\* value is then 0.0
C28_SeriesEndWithCurrent ==
    snapshot.kind = "Ok" =>
        LET d == snapshot.data
            s == d.intraday_series.v
            L == Len(Klines3m)
        IN  /\ d.intraday_series.some
            /\ Len(s.mid_prices) > 0
            /\ LastOf(s.mid_prices) = d.current_price
            /\ Len(s.ema20_values) = 0 <=> L < 20
            /\ IF L < 20 THEN d.current_ema20 = Zero
               ELSE LastOf(s.ema20_values) = d.current_ema20
            /\ Len(s.macd_values) = 0 <=> L < 26
            /\ IF L < 26 THEN d.current_macd = Zero
               ELSE LastOf(s.macd_values) = d.current_macd
            /\ Len(s.rsi7_values) = 0 <=> L <= 7
            /\ IF L <= 7 THEN d.current_rsi7 = Zero
               ELSE LastOf(s.rsi7_values) = d.current_rsi7

\* a snapshot of a 3m feed of 20 candles whose last close moved: the EMA20
\* and RSI7 series end with the current values, the MACD series is empty
C28_Witness ==
    /\ snapshot.kind = "Ok"
    /\ Len(Klines3m) = 20
    /\ Klines3m[20].close # Klines3m[19].close
    /\ LastOf(snapshot.data.intraday_series.v.ema20_values) = snapshot.data.current_ema20
    /\ snapshot.data.current_ema20 # Zero
    /\ LastOf(snapshot.data.intraday_series.v.rsi7_values) = snapshot.data.current_rsi7
    /\ snapshot.data.intraday_series.v.macd_values = <<>>
    /\ snapshot.data.current_macd = Zero

\* the outcomes built with a profit, and those without
Winning == {i \in DOMAIN outcomes : outcomes[i].pn_l > 0}

Losing == {i \in DOMAIN outcomes : outcomes[i].pn_l <= 0}

RECURSIVE PnlOf(_, _)
\* the sum of pn_l over the outcomes 1..i that lie in class
PnlOf(class, i) ==
    IF i = 0 THEN 0
    ELSE (IF i \in class THEN outcomes[i].pn_l ELSE 0) + PnlOf(class, i - 1)

\* C25: the analysis returned for the outcomes of the window counts each
\* outcome as winning (pnl > 0) or losing (pnl <= 0), has win_rate =
\* winning / total (0 for no outcome), avg_win and avg_loss the mean pnl of
\* each class, and profit_factor = winning pnl / |losing pnl|
C25_AnalysisAggregatesOutcomes ==
    pc = "done" =>
        LET a == AnalysisAtReturn
            total == Len(outcomes)
            won == PnlOf(Winning, total)
            lost == PnlOf(Losing, total)
        IN  /\ a.total_trades = total
            /\ a.winning_trades = Cardinality(Winning)
            /\ a.losing_trades = Cardinality(Losing)
            /\ a.winning_trades + a.losing_trades = a.total_trades
            /\ a.win_rate = IF total = 0 THEN Zero ELSE Q(Cardinality(Winning), total)
            /\ Winning # {} => a.avg_win = Q(won, Cardinality(Winning))
            /\ Losing # {} => a.avg_loss = Q(lost, Cardinality(Losing))
            /\ lost # 0 => a.profit_factor = Q(won, Abs(lost))

\* s with every letter upper-cased
UpperCased(s) == [i \in 1..Len(s) |-> ToUpper(s[i])]

\* C22: normalize returns the upper-cased symbol, with USDT appended exactly
\* when the upper-cased symbol does not end with it; the result ends with
\* USDT, and normalize on it returns it unchanged
C22_NormalizeIsIdempotent ==
    text.op = "normalize" =>
        /\ EndsWith(text.ret, Usdt)
        /\ EndsWith(UpperCased(text.arg), Usdt) => text.ret = UpperCased(text.arg)
        /\ ~EndsWith(UpperCased(text.arg), Usdt) => text.ret = UpperCased(text.arg) \o Usdt
        /\ text.again => text.ret = text.arg

\* normalize turned "b" into "BUSDT", and "BUSDT" into itself
C22_Witness ==
    /\ given.fn = "normalize"
    /\ given.v = <<"b">>
    /\ text.op = "normalize"
    /\ text.again
    /\ text.arg = <<"B", "U", "S", "D", "T">>
    /\ text.ret = <<"B", "U", "S", "D", "T">>

\* the report has a line of this block and this label
HasLine(block, label) ==
    \E i \in DOMAIN text.ret : text.ret[i].block = block /\ text.ret[i].label = label

\* the lines of a full report, in order
FullReport ==
    << <<"head", "current_price">>, <<"head", "In addition">>, <<"head", "Open Interest">>,
       <<"head", "Funding Rate">>,
       <<"intraday", "Intraday series">>, <<"intraday", "Mid prices">>,
       <<"intraday", "EMA indicators (20-period)">>, <<"intraday", "MACD indicators">>,
       <<"intraday", "RSI indicators (7-Period)">>, <<"intraday", "RSI indicators (14-Period)">>,
       <<"longer", "Longer-term context">>, <<"longer", "20-Period EMA">>,
       <<"longer", "3-Period ATR">>, <<"longer", "Current Volume">>,
       <<"longer", "MACD indicators">>, <<"longer", "RSI indicators (14-Period)">> >>

\* the place of the i-th line of the report in a full report, 0 if it has none
PlaceOf(i) ==
    LET at == {k \in DOMAIN FullReport :
                  FullReport[k] = <<text.ret[i].block, text.ret[i].label>>}
    IN  IF at = {} THEN 0 ELSE CHOOSE k \in at : TRUE

\* C26: the report has the open-interest line exactly when open interest is
\* present, has no line of the intraday block, header included, when the
\* intraday series is absent, none of the longer-term block when the
\* longer-term context is absent, and its lines follow the order of a full
\* report
C26_SectionsOnlyWhenPresent ==
    text.op = "format" =>
        /\ HasLine("head", "Open Interest") <=> text.arg.open_interest.some
        /\ ~text.arg.intraday_series.some =>
              \A i \in DOMAIN text.ret : text.ret[i].block # "intraday"
        /\ ~text.arg.longer_term_context.some =>
              \A i \in DOMAIN text.ret : text.ret[i].block # "longer"
        /\ \A i \in DOMAIN text.ret : PlaceOf(i) > 0
        /\ \A i, j \in DOMAIN text.ret : i < j => PlaceOf(i) < PlaceOf(j)

====
